---- MODULE Spec2Model ----
(***************************************************************************)
(* Model of the movement-map view (frontend/src/views/TractorMap.vue):     *)
(* the GPS fetch that installs the trajectory and the timeline playback    *)
(* controller (play / pause / reset / seek / skip / speed) with the        *)
(* window's interval timers that drive it.                                 *)
(*                                                                         *)
(* Representation choices                                                  *)
(*   - gpsData is the cleaned trajectory.  Where only playback matters a   *)
(*     point is identified by its position in time order, so gpsData =     *)
(*     <<1, ..., n>>; where the sanitizer is studied (SanitizeSpec) the    *)
(*     points are the samples themselves.                                  *)
(*   - a nullable number is <<>> for null and <<x>> for the number x.      *)
(*   - a latitude or longitude is a whole number of metres of great-circle *)
(*     arc (1 = 180 / (pi * 6371000) degrees), so that between two points   *)
(*     of one meridian getDistance is the difference of their latitudes.   *)
(*   - a speed is a whole number of thousandths of a km/h.                 *)
(*   - playback speeds are held in units of 0.5x (the smallest option):    *)
(*     0.5x = 1, 1x = 2, 2x = 4, 4x = 8, and 1.5x = 3, 3x = 6.             *)
(*   - playInterval = 0 stands for null (setInterval handles are >= 1).    *)
(*   - timers is the window's table of active interval timers: a cleared   *)
(*     timer leaves the table and its callback never runs again.           *)
(***************************************************************************)
EXTENDS Integers, Sequences, FiniteSets, TLC

\* ------------------------------------------------------------------ bounds

\* Longest trajectory considered (>= 10 so that a skip moves the playhead).
MaxN == 11

\* Number of interval timers the window hands out in one behaviour.
MaxTimers == 3

\* --------------------------------------------------------------- constants

\* Base tick period in milliseconds at 1x.
BaseIntervalMs == 150

\* speedOptions' values, in units of 0.5x.
speedOptions == {1, 2, 4, 8}

\* Numbers a direct caller may hand to setSpeed: the options plus 1.5x, 3x.
AnySpeeds == speedOptions \cup {3, 6}

\* Values a script or the user may try to put on the timeline range input.
SeekInputs == (-5 .. (MaxN + 1)) \cup {999}

VARIABLES
    gpsData,        \* the trajectory held by the view
    loading,        \* a fetch is in flight
    error,          \* the last fetch failed (error message set)
    currentIndex,   \* playhead
    isPlaying,
    playbackSpeed,  \* in units of 0.5x
    playInterval,   \* handle of the controller's timer, 0 = null
    timers,         \* active interval timers of the window: [id, period]
    nextTimerId,    \* next handle setInterval returns
    lastOp,         \* the handler that ran last
    runClean,       \* a run started by play() at index 0, untouched since
    runNotified,    \* watcher notifications delivered during that run
    fetchedBy,      \* who called the fetchData in flight or last settled
    map,            \* "none", "scheduled" (setTimeout(initMap)), "ready" or "removed"
    tractorMarker,  \* <<>> for null, else <<the point the marker is at>>
    mounted,        \* the component is mounted (FALSE after onUnmounted)
    data,           \* the response of getGPSData under study
    filtered,       \* fetchData's local: the valid samples, sorted
    avgSpeed,       \* the speed handed to getSpeedColor
    color,          \* what getSpeedColor returned for it
    route,          \* TractorDetail: the router's current query and pending target
    detail,         \* TractorDetail: data, loading, error and the requests in flight
    form,           \* EditSession: formData, validationErrors, saving, error, success
    server          \* GET /tractors/:serialNumber: req.query and the values it yields

vars == <<gpsData, loading, error, currentIndex, isPlaying, playbackSpeed,
          playInterval, timers, nextTimerId, lastOp, runClean, runNotified,
          fetchedBy, map, tractorMarker, mounted, data, filtered, avgSpeed, color, route, detail,
          form, server>>

\* The inputs and locals of the pure functions studied on their own.
pureVars == <<data, filtered, avgSpeed, color>>

\* The state of the map view, but for the observer lastOp.
mapView == <<gpsData, loading, error, currentIndex, isPlaying, playbackSpeed,
             playInterval, timers, nextTimerId, runClean, runNotified,
             fetchedBy, map, tractorMarker, mounted>>

\* The state of the other views.
elsewhere == <<route, detail, form, server>>

\* ----------------------------------------------------------------- helpers

Max(a, b) == IF a >= b THEN a ELSE b

Min(a, b) == IF a <= b THEN a ELSE b

N == Len(gpsData)

\* Math.round(150 / speed), speed = s2 / 2:  floor(300 / s2 + 1/2).
TickPeriod(s2) == (4 * BaseIntervalMs + s2) \div (2 * s2)

\* Faulty variant of SkipStep: the tenth rounded up instead of down.
SkipStepCeil(len) == (len + 9) \div 10

\* Math.floor(gpsData.length * 0.1)
SkipStep(len) == len \div 10

\* Faulty variant of RangeInputValue: the input has no max attribute.
RangeInputNoMax(v, len) == Max(0, v)

\* The value a range input with min = 0, max = len - 1, step = 1 reports
\* for an attempted value v: clamped to max, then to min (min wins when
\* max < min).
RangeInputValue(v, len) == Max(0, Min(len - 1, v))

\* Faulty variant of WatchFires: the callback runs after every tick.
WatchFiresAlways(old, new) == TRUE

\* watch(currentIndex, cb): cb runs once after a handler that changed it.
WatchFires(old, new) == old # new

\* The controller's mutable state as one value, so that handlers that call
\* one another compose as the code does.
Ctl == [currentIndex  |-> currentIndex,
        isPlaying     |-> isPlaying,
        playbackSpeed |-> playbackSpeed,
        playInterval  |-> playInterval,
        timers        |-> timers,
        nextTimerId   |-> nextTimerId]

Commit(c) ==
    /\ currentIndex'  = c.currentIndex
    /\ isPlaying'     = c.isPlaying
    /\ playbackSpeed' = c.playbackSpeed
    /\ playInterval'  = c.playInterval
    /\ timers'        = c.timers
    /\ nextTimerId'   = c.nextTimerId

\* ------------------------------------------------------- controller bodies

\* Faulty variant of pause: the handle is dropped without clearInterval.
pauseKeepsTimer(c) == [c EXCEPT !.isPlaying = FALSE, !.playInterval = 0]

\* Faulty variant of pause: the timer is cleared but its handle is kept.
pauseKeepsHandle(c) ==
    [c EXCEPT !.isPlaying = FALSE,
              !.timers = {t \in c.timers : t.id # c.playInterval}]

\* pause(): isPlaying = false; if (playInterval) { clearInterval; = null }
pause(c) ==
    IF c.playInterval # 0
    THEN [c EXCEPT !.isPlaying = FALSE,
                   !.timers = {t \in c.timers : t.id # c.playInterval},
                   !.playInterval = 0]
    ELSE [c EXCEPT !.isPlaying = FALSE]

\* play(): no-op on an empty trajectory; else isPlaying = true and a new
\* interval timer whose handle overwrites playInterval.
play(c) ==
    IF N = 0
    THEN c
    ELSE [c EXCEPT !.isPlaying = TRUE,
                   !.timers = c.timers \cup
                       {[id |-> c.nextTimerId,
                         period |-> TickPeriod(c.playbackSpeed)]},
                   !.playInterval = c.nextTimerId,
                   !.nextTimerId = c.nextTimerId + 1]

\* Faulty variant of tick: every other point is passed over.
tickByTwo(c) ==
    IF c.currentIndex >= N - 1
    THEN [pause(c) EXCEPT !.currentIndex = 0]
    ELSE [c EXCEPT !.currentIndex = Min(N - 1, c.currentIndex + 2)]

\* Faulty variant of tick: the last tick wraps to 0 without pausing.
tickAutoReplay(c) ==
    IF c.currentIndex >= N - 1
    THEN [c EXCEPT !.currentIndex = 0]
    ELSE [c EXCEPT !.currentIndex = c.currentIndex + 1]

\* The interval callback.
tick(c) ==
    IF c.currentIndex >= N - 1
    THEN [pause(c) EXCEPT !.currentIndex = 0]
    ELSE [c EXCEPT !.currentIndex = c.currentIndex + 1]

\* Faulty variant of setSpeed: the running timer is not restarted.
setSpeedNoRestart(c, speed) == [c EXCEPT !.playbackSpeed = speed]

\* setSpeed(speed)
setSpeed(c, speed) ==
    LET c1 == [c EXCEPT !.playbackSpeed = speed]
    IN  IF c1.isPlaying THEN play(pause(c1)) ELSE c1

\* reset()
reset(c) == [pause(c) EXCEPT !.currentIndex = 0]

\* skipBack()
skipBack(c) ==
    [c EXCEPT !.currentIndex = Max(0, c.currentIndex - SkipStep(N))]

\* Faulty variant of skipForward: no Math.min against the last index.
skipForwardNoClamp(c) ==
    [c EXCEPT !.currentIndex = c.currentIndex + SkipStep(N)]

\* skipForward()
skipForward(c) ==
    [c EXCEPT !.currentIndex = Min(N - 1, c.currentIndex + SkipStep(N))]

\* handleTimelineChange(event): parseInt(event.target.value)
handleTimelineChange(c, value) == [c EXCEPT !.currentIndex = value]

\* Faulty variant of togglePlay: the button always calls play().
togglePlayAlwaysPlays(c) == play(c)

\* The play/pause button: isPlaying ? pause() : play()
togglePlay(c) == IF c.isPlaying THEN pause(c) ELSE play(c)

\* A handler that creates a timer needs a handle the window can still give.
HandleLeft(c) == c.nextTimerId <= MaxTimers

\* A user operation ends any untouched run.
UserOp(name) ==
    /\ lastOp' = name
    /\ runClean' = FALSE
    /\ runNotified' = 0

\* ----------------------------------------------------------- the sanitizer

\* Samples per response.
MaxSamples == 3

\* A jump of this many metres or more from the last kept point is dropped.
MaxJumpMeters == 500

\* 90 and 180 degrees, as metres of arc (10 007 543.4 and 20 015 086.8).
LatLimit == 10007543
LonLimit == 20015086

Abs(x) == IF x < 0 THEN -x ELSE x

\* JavaScript's truthiness of a nullable number: neither null nor 0.
Truthy(c) == c # <<>> /\ c[1] # 0

\* The haversine distance in metres.  On one meridian it is the difference
\* of the latitudes, on the equator the difference of the longitudes.
\* Elsewhere it lies between the difference of the latitudes and that
\* difference plus the difference of the longitudes: the model gives the
\* lower end where it reaches the jump limit and the upper end where it
\* stays under the limit, and has no value for a pair neither end decides.
getDistance(lat1, lon1, lat2, lon2) ==
    CASE lon1 = lon2 -> Abs(lat1 - lat2)
      [] lon1 # lon2 /\ lat1 = 0 /\ lat2 = 0 -> Abs(lon1 - lon2)
      [] lon1 # lon2 /\ ~(lat1 = 0 /\ lat2 = 0)
            /\ Abs(lat1 - lat2) >= MaxJumpMeters -> Abs(lat1 - lat2)
      [] lon1 # lon2 /\ ~(lat1 = 0 /\ lat2 = 0)
            /\ Abs(lat1 - lat2) + Abs(lon1 - lon2) < MaxJumpMeters
            -> Abs(lat1 - lat2) + Abs(lon1 - lon2)

\* Faulty variant of validFix: only null and out-of-range are rejected.
validFixKeepsZero(d) ==
    /\ d.gps_latitude # <<>> /\ d.gps_longitude # <<>>
    /\ Abs(d.gps_latitude[1]) <= LatLimit
    /\ Abs(d.gps_longitude[1]) <= LonLimit

\* The predicate of data.filter(...).
validFix(d) ==
    /\ Truthy(d.gps_latitude) /\ Truthy(d.gps_longitude)
    /\ d.gps_latitude[1] # 0 /\ d.gps_longitude[1] # 0
    /\ Abs(d.gps_latitude[1]) <= LatLimit
    /\ Abs(d.gps_longitude[1]) <= LonLimit

\* x put into the time-sorted s, behind every sample that is not later.
RECURSIVE insertByTime(_, _)
insertByTime(s, x) ==
    IF s = <<>> \/ s[Len(s)].date_time <= x.date_time
    THEN Append(s, x)
    ELSE Append(insertByTime(SubSeq(s, 1, Len(s) - 1), x), s[Len(s)])

\* x put into the time-sorted s, in front of every sample that is not earlier.
RECURSIVE insertBeforeTies(_, _)
insertBeforeTies(s, x) ==
    IF s = <<>> \/ s[Len(s)].date_time < x.date_time
    THEN Append(s, x)
    ELSE Append(insertBeforeTies(SubSeq(s, 1, Len(s) - 1), x), s[Len(s)])

\* Faulty variant of sortByTime: the samples stay in arrival order.
sortNone(seq) == seq

\* Faulty variant of sortByTime: samples of equal time change places.
RECURSIVE sortTiesReversed(_)
sortTiesReversed(seq) ==
    IF seq = <<>> THEN <<>>
    ELSE insertBeforeTies(sortTiesReversed(SubSeq(seq, 1, Len(seq) - 1)), seq[Len(seq)])

\* .sort((a, b) => time(a) - time(b)): Array.prototype.sort is stable.
RECURSIVE sortByTime(_)
sortByTime(seq) ==
    IF seq = <<>> THEN <<>>
    ELSE insertByTime(sortByTime(SubSeq(seq, 1, Len(seq) - 1)), seq[Len(seq)])

\* Faulty variant of withinJump: a jump of exactly the limit is kept.
withinJumpInclusive(prev, point) ==
    getDistance(prev.gps_latitude[1], prev.gps_longitude[1],
                point.gps_latitude[1], point.gps_longitude[1]) <= MaxJumpMeters

\* distance < 500, from the last kept point to the next sample.
withinJump(prev, point) ==
    getDistance(prev.gps_latitude[1], prev.gps_longitude[1],
                point.gps_latitude[1], point.gps_longitude[1]) < MaxJumpMeters

\* Faulty variant of smoothFrom: a sample too far away takes the place of
\* the last kept one.
RECURSIVE smoothReanchors(_, _)
smoothReanchors(smoothed, rest) ==
    IF rest = <<>> THEN smoothed
    ELSE LET point == Head(rest) IN
         IF smoothed = <<>> THEN smoothReanchors(<<point>>, Tail(rest))
         ELSE IF withinJump(smoothed[Len(smoothed)], point)
              THEN smoothReanchors(Append(smoothed, point), Tail(rest))
              ELSE smoothReanchors(
                       Append(SubSeq(smoothed, 1, Len(smoothed) - 1), point),
                       Tail(rest))

\* The for loop: smoothed so far, and the samples still to visit.
RECURSIVE smoothFrom(_, _)
smoothFrom(smoothed, rest) ==
    IF rest = <<>> THEN smoothed
    ELSE LET point == Head(rest) IN
         IF smoothed = <<>> THEN smoothFrom(<<point>>, Tail(rest))
         ELSE IF withinJump(smoothed[Len(smoothed)], point)
              THEN smoothFrom(Append(smoothed, point), Tail(rest))
              ELSE smoothFrom(smoothed, Tail(rest))

\* Faulty variant of smooth: each sample is measured against the sample
\* before it, kept or not.
smoothPairwise(sorted) ==
    LET Kept(i) == i = 1 \/ withinJump(sorted[i - 1], sorted[i])
        RECURSIVE From(_)
        From(i) == IF i > Len(sorted) THEN <<>>
                   ELSE IF Kept(i) THEN <<sorted[i]>> \o From(i + 1)
                   ELSE From(i + 1)
    IN From(1)

\* The outlier loop over the sorted samples.
smooth(sorted) == smoothFrom(<<>>, sorted)

\* const filtered = data.filter(...).sort(...)
filterSort(raw) == sortByTime(SelectSeq(raw, validFix))

\* What fetchData makes of a response.
sanitize(raw) == smooth(filterSort(raw))

\* Latitudes of a track near 46 N: 1, 500 and 800 m north of the first.
TrackLats == {5115000, 5115001, 5115500, 5115800}

Fix(t, lat, lon) == [date_time |-> t, gps_latitude |-> lat, gps_longitude |-> lon]

\* Valid fixes on the meridian 15.5 E at three times.
TrackFixes == {Fix(t, <<la>>, <<1723500>>) : t \in 1 .. 3, la \in TrackLats}

\* Three fixes on the equator: (0, 0), (0, 0.01 deg), (0, 0.0001 deg).
EquatorA == Fix(1, <<0>>, <<0>>)
EquatorB == Fix(2, <<0>>, <<1112>>)
EquatorC == Fix(3, <<0>>, <<11>>)

\* Fixes with a missing, zero or out-of-range coordinate, and one at the
\* limit of the latitude range.
OddFixes ==
    { Fix(2, <<>>, <<1723500>>), Fix(2, <<5115000>>, <<>>),
      Fix(2, <<5115000>>, <<0>>),
      Fix(2, <<LatLimit + 1>>, <<1723500>>), Fix(2, <<-LatLimit - 1>>, <<1723500>>),
      Fix(2, <<5115000>>, <<LonLimit + 1>>),
      Fix(2, <<LatLimit>>, <<1723500>>),
      EquatorA, EquatorB, EquatorC }

SampleFixes == TrackFixes \cup OddFixes

\* A response in arrival order: t = 2 at (10, 10), t = 1 at (10.5, 10) and
\* t = 3 at (10.0001, 10.0001) degrees.
EarlyBadFix ==
    << Fix(2, <<1111949>>, <<1111949>>),
       Fix(1, <<1167547>>, <<1111949>>),
       Fix(3, <<1111960>>, <<1111960>>) >>

\* A response: up to MaxSamples samples, numbered as they arrive.
Numbered(f) ==
    [i \in 1 .. Len(f) |->
        [id |-> i, date_time |-> f[i].date_time,
         gps_latitude |-> f[i].gps_latitude, gps_longitude |-> f[i].gps_longitude]]

Responses ==
    {Numbered(f) : f \in UNION {[1 .. n -> SampleFixes] : n \in 0 .. MaxSamples}}
    \cup {Numbered(EarlyBadFix)}

\* ------------------------------------------------------------ the timeline

\* Faulty variant of progressPercent: the index is divided by the number of
\* points instead of the last index.
progressPercentOfLength(index, length) ==
    IF length <= 1 THEN [num |-> 0, den |-> 1]
    ELSE [num |-> index * 100, den |-> length]

\* progressPercent, as the exact fraction num / den (den > 0).
progressPercent(index, length) ==
    IF length <= 1 THEN [num |-> 0, den |-> 1]
    ELSE [num |-> index * 100, den |-> length - 1]

\* -------------------------------------------------------- the classifier

\* ground_speed_gearbox values of the two ends of a segment.
EndSpeeds ==
    {<<>>, <<0>>, <<4999>>, <<5000>>, <<9999>>, <<10000>>, <<14999>>,
     <<15000>>, <<30000>>}

\* x || 0 for a nullable number.
OrZero(x) == IF x = <<>> THEN 0 ELSE x[1]

\* Faulty variant of segmentSpeed: an end without a speed is left out of
\* the average.
segmentSpeedSkipsNull(current, next) ==
    LET a == current.ground_speed_gearbox
        b == next.ground_speed_gearbox
    IN  IF a = <<>> /\ b = <<>> THEN <<>>
        ELSE IF a = <<>> THEN b
        ELSE IF b = <<>> THEN a
        ELSE <<(a[1] + b[1]) \div 2>>

\* const avgSpeed = ((current... || 0) + (next... || 0)) / 2, as whole
\* thousandths: the half a thousandth lost changes no comparison with a
\* whole limit.
segmentSpeed(current, next) ==
    <<(OrZero(current.ground_speed_gearbox) + OrZero(next.ground_speed_gearbox)) \div 2>>

\* 5 and 15 km/h.
SlowLimit == 5000
MediumLimit == 15000

\* Faulty variant of getSpeedColor: the limits belong to the class below.
getSpeedColorInclusive(s) ==
    IF s = <<>> THEN "#9ca3af"
    ELSE IF s[1] <= SlowLimit THEN "#10b981"
    ELSE IF s[1] <= MediumLimit THEN "#f59e0b"
    ELSE "#ef4444"

\* getSpeedColor(speed)
getSpeedColor(s) ==
    IF s = <<>> THEN "#9ca3af"
    ELSE IF s[1] < SlowLimit THEN "#10b981"
    ELSE IF s[1] < MediumLimit THEN "#f59e0b"
    ELSE "#ef4444"

speedLegend ==
    << [color |-> "#10b981", label |-> "< 5 km/h", description |-> "Stationary/Slow"],
       [color |-> "#f59e0b", label |-> "5-15 km/h", description |-> "Medium"],
       [color |-> "#ef4444", label |-> "> 15 km/h", description |-> "Fast"],
       [color |-> "#9ca3af", label |-> "Unknown", description |-> "No speed data"] >>

\* Speeds handed to the classifier: null, the thousandths around both
\* limits, and some far from them.
Speeds ==
    {<<>>} \cup
    {<<s>> : s \in (4950 .. 5050) \cup (14950 .. 15050)
                   \cup {-1000, 0, 1000, 10000, 20000, 100000}}

\* --------------------------------------------------------------- the fetch

\* fetchData resolves: the sanitized samples replace gpsData.
\* and onMounted, when it was the caller, schedules initMap if any point
\* is left.
Install(smoothed) ==
    /\ loading
    /\ gpsData' = smoothed
    /\ loading' = FALSE
    /\ map' = IF fetchedBy = "mount" /\ Len(smoothed) > 0 THEN "scheduled" ELSE map
    /\ lastOp' = "fetch"
    /\ UNCHANGED <<error, currentIndex, isPlaying, playbackSpeed, playInterval,
                   timers, nextTimerId, runClean, runNotified, fetchedBy,
                   tractorMarker>>

FetchResolve ==
    /\ \E n \in 0 .. MaxN : Install([i \in 1 .. n |-> i])
    /\ UNCHANGED <<pureVars, mounted, elsewhere>>

\* fetchData resolves with the response under study.
FetchSanitize ==
    /\ filtered' = filterSort(data)
    /\ Install(sanitize(data))
    /\ UNCHANGED <<data, avgSpeed, color, mounted, elsewhere>>

\* const color = getSpeedColor(avgSpeed)
Classify ==
    /\ color = ""
    /\ color' = getSpeedColor(avgSpeed)
    /\ lastOp' = "classify"
    /\ UNCHANGED <<gpsData, loading, error, currentIndex, isPlaying,
                   playbackSpeed, playInterval, timers, nextTimerId,
                   runClean, runNotified, fetchedBy, map, tractorMarker,
                   data, filtered,
                   avgSpeed, mounted, elsewhere>>

\* One pass of initMap's loop, over the one segment of a two-point track.
ColorSegment ==
    /\ color = ""
    /\ N = 2
    /\ avgSpeed' = segmentSpeed(gpsData[1], gpsData[2])
    /\ color' = getSpeedColor(avgSpeed')
    /\ lastOp' = "segment"
    /\ UNCHANGED <<gpsData, loading, error, currentIndex, isPlaying,
                   playbackSpeed, playInterval, timers, nextTimerId,
                   runClean, runNotified, fetchedBy, map, tractorMarker,
                   data, filtered,
                   mounted, elsewhere>>

\* The same steps of fetchData over the trajectory they produced.
Resanitize ==
    /\ lastOp = "fetch"
    /\ filtered' = filterSort(gpsData)
    /\ gpsData' = sanitize(gpsData)
    /\ lastOp' = "resanitize"
    /\ UNCHANGED <<loading, error, currentIndex, isPlaying, playbackSpeed,
                   playInterval, timers, nextTimerId, runClean, runNotified,
                   fetchedBy, map, tractorMarker, data, avgSpeed, color,
                   mounted, elsewhere>>

\* Faulty variant of FetchReject: the failed fetch is left loading, as if
\* issued again.
FetchRejectRefetches ==
    /\ loading
    /\ error' = TRUE
    /\ lastOp' = "fetchFailed"
    /\ UNCHANGED <<gpsData, loading, currentIndex, isPlaying, playbackSpeed,
                   playInterval, timers, nextTimerId, runClean, runNotified,
                   fetchedBy, map, tractorMarker, pureVars, mounted, elsewhere>>

\* fetchData rejects: error set, gpsData untouched.
FetchReject ==
    /\ loading
    /\ error' = TRUE
    /\ loading' = FALSE
    /\ lastOp' = "fetchFailed"
    /\ UNCHANGED <<gpsData, currentIndex, isPlaying, playbackSpeed,
                   playInterval, timers, nextTimerId, runClean, runNotified,
                   fetchedBy, map, tractorMarker, pureVars, mounted, elsewhere>>

\* Faulty variant of Retry: a refresh offered whenever no fetch is pending.
RetryAnytime ==
    /\ ~loading
    /\ loading' = TRUE
    /\ error' = FALSE
    /\ lastOp' = "retry"
    /\ fetchedBy' = "retry"
    /\ UNCHANGED <<gpsData, currentIndex, isPlaying, playbackSpeed,
                   playInterval, timers, nextTimerId, runClean, runNotified,
                   map, tractorMarker, pureVars, mounted, elsewhere>>

\* ErrorAlert's retry: fetchData again.
Retry ==
    /\ mounted
    /\ ~loading /\ error
    /\ loading' = TRUE
    /\ error' = FALSE
    /\ lastOp' = "retry"
    /\ fetchedBy' = "retry"
    /\ UNCHANGED <<gpsData, currentIndex, isPlaying, playbackSpeed,
                   playInterval, timers, nextTimerId, runClean, runNotified,
                   map, tractorMarker, pureVars, mounted, elsewhere>>

\* ------------------------------------------------------ handlers as steps

\* Faulty variant of updateMarkerPosition: the marker is never moved.
updateMarkerPositionNever(marker, index) == marker

\* updateMarkerPosition(): if (!tractorMarker || !currentPosition) return;
\* else setLatLng to the current position.
updateMarkerPosition(marker, index) ==
    IF marker = <<>> \/ index < 0 \/ index >= N
    THEN marker
    ELSE <<gpsData[index + 1]>>

\* The marker after a handler that left the controller as c: the handler's
\* own call of updateMarkerPosition (called), or the one made by
\* watch(currentIndex, updateMarkerPosition) when the playhead changed.
Moved(called, c) ==
    tractorMarker' =
        IF called \/ WatchFires(currentIndex, c.currentIndex)
        THEN updateMarkerPosition(tractorMarker, c.currentIndex)
        ELSE tractorMarker

\* The play/pause button's click handler.
TogglePlay ==
    /\ ~isPlaying => HandleLeft(Ctl)
    /\ Commit(togglePlay(Ctl))
    /\ IF isPlaying
       THEN UserOp("pause")
       ELSE /\ lastOp' = "play"
            /\ runClean' = (N > 0 /\ currentIndex = 0)
            /\ runNotified' = 0
    /\ Moved(FALSE, togglePlay(Ctl))
    /\ UNCHANGED <<gpsData, loading, error, fetchedBy, map, pureVars, mounted, elsewhere>>

Reset ==
    /\ Commit(reset(Ctl))
    /\ UserOp("reset")
    /\ Moved(TRUE, reset(Ctl))
    /\ UNCHANGED <<gpsData, loading, error, fetchedBy, map, pureVars, mounted, elsewhere>>

SkipBack ==
    /\ Commit(skipBack(Ctl))
    /\ UserOp("skipBack")
    /\ Moved(TRUE, skipBack(Ctl))
    /\ UNCHANGED <<gpsData, loading, error, fetchedBy, map, pureVars, mounted, elsewhere>>

SkipForward ==
    /\ Commit(skipForward(Ctl))
    /\ UserOp("skipForward")
    /\ Moved(TRUE, skipForward(Ctl))
    /\ UNCHANGED <<gpsData, loading, error, fetchedBy, map, pureVars, mounted, elsewhere>>

Seek(v) ==
    /\ Commit(handleTimelineChange(Ctl, RangeInputValue(v, N)))
    /\ UserOp("seek")
    /\ Moved(TRUE, handleTimelineChange(Ctl, RangeInputValue(v, N)))
    /\ UNCHANGED <<gpsData, loading, error, fetchedBy, map, pureVars, mounted, elsewhere>>

SetSpeed(speed) ==
    /\ isPlaying => HandleLeft(Ctl)
    /\ Commit(setSpeed(Ctl, speed))
    /\ UserOp("setSpeed")
    /\ Moved(FALSE, setSpeed(Ctl, speed))
    /\ UNCHANGED <<gpsData, loading, error, fetchedBy, map, pureVars, mounted, elsewhere>>

\* One firing of an active interval timer.
Tick ==
    /\ \E t \in timers : Commit(tick(Ctl))
    /\ lastOp' = "tick"
    /\ runClean' = runClean
    /\ runNotified' = IF runClean /\ WatchFires(currentIndex, tick(Ctl).currentIndex)
                      THEN runNotified + 1
                      ELSE runNotified
    /\ Moved(currentIndex < N - 1, tick(Ctl))
    /\ UNCHANGED <<gpsData, loading, error, fetchedBy, map, pureVars, mounted, elsewhere>>

\* ------------------------------------------------------ the view (template)

\* The timeline controls are in the v-else branch of the template.
ControlsRendered == mounted /\ ~loading /\ ~error /\ N > 0

ClickTogglePlay == ControlsRendered /\ TogglePlay

ClickReset == ControlsRendered /\ Reset

ClickSkipBack == ControlsRendered /\ SkipBack

ClickSkipForward == ControlsRendered /\ SkipForward

InputTimeline == ControlsRendered /\ \E v \in SeekInputs : Seek(v)

ClickSpeed == ControlsRendered /\ \E opt \in speedOptions : SetSpeed(opt)

\* The timeout set by onMounted fires: initMap().  It draws the path and
\* creates the marker at the first point, unless the map container is not
\* rendered.
InitMap ==
    /\ map = "scheduled"
    /\ map' = IF ControlsRendered THEN "ready" ELSE "none"
    /\ tractorMarker' = IF ControlsRendered THEN <<gpsData[1]>> ELSE tractorMarker
    /\ lastOp' = "initMap"
    /\ UNCHANGED <<gpsData, loading, error, currentIndex, isPlaying,
                   playbackSpeed, playInterval, timers, nextTimerId,
                   runClean, runNotified, fetchedBy, pureVars, mounted, elsewhere>>

\* Faulty variant of onUnmounted: the playback is left as it is.
onUnmountedNoPause(c) == c

\* onUnmounted's effect on the controller: pause().
onUnmounted(c) == pause(c)

\* The view is left: onUnmounted runs (pause(); if (map) map.remove()) and
\* the template is gone.  A fetch still in flight settles later, and the
\* history of the last run is kept.
Unmount ==
    /\ mounted
    /\ mounted' = FALSE
    /\ Commit(onUnmounted(Ctl))
    /\ map' = IF map = "ready" THEN "removed" ELSE map
    /\ lastOp' = "unmount"
    /\ UNCHANGED <<gpsData, loading, error, fetchedBy, tractorMarker,
                   runClean, runNotified, pureVars, elsewhere>>

\* -------------------------------------------------------- the edit form

\* The six validated fields of formData; whole numbers stand for the
\* numbers typed.
FormInputs ==
    [engine_load : {<<>>, <<-1>>, <<0>>, <<100>>, <<101>>},
     gps_longitude : {<<>>, <<-181>>, <<-180>>, <<180>>, <<181>>},
     gps_latitude : {<<>>, <<-91>>, <<-90>>, <<90>>, <<91>>},
     total_working_hours_counter : {<<>>, <<-1>>, <<0>>, <<5>>},
     engine_speed : {<<>>, <<-1>>, <<0>>, <<1600>>},
     fuel_consumption : {<<>>, <<-1>>, <<0>>, <<12>>}]

\* formData before a session is loaded: every field null.
EmptyFormData ==
    [k \in {"engine_load", "gps_longitude", "gps_latitude",
            "total_working_hours_counter", "engine_speed", "fuel_consumption"}
        |-> <<>>]

\* Faulty variant of validate: the upper limit of engine_load is not looked at.
validateNoUpper(fd) ==
    {k \in {"engine_load", "total_working_hours_counter", "engine_speed",
            "fuel_consumption"} : fd[k] # <<>> /\ fd[k][1] < 0}
    \cup {k \in {"gps_longitude"} : fd[k] # <<>> /\ (fd[k][1] < -180 \/ fd[k][1] > 180)}
    \cup {k \in {"gps_latitude"} : fd[k] # <<>> /\ (fd[k][1] < -90 \/ fd[k][1] > 90)}

\* validate(): the keys validationErrors ends with.
validate(fd) ==
    {k \in {"engine_load"} : fd[k] # <<>> /\ (fd[k][1] < 0 \/ fd[k][1] > 100)}
    \cup {k \in {"gps_longitude"} : fd[k] # <<>> /\ (fd[k][1] < -180 \/ fd[k][1] > 180)}
    \cup {k \in {"gps_latitude"} : fd[k] # <<>> /\ (fd[k][1] < -90 \/ fd[k][1] > 90)}
    \cup {k \in {"total_working_hours_counter", "engine_speed", "fuel_consumption"} :
              fd[k] # <<>> /\ fd[k][1] < 0}

\* handleSubmit() up to its await; calls counts the updateSession calls it made.
handleSubmit(f) ==
    IF validate(f.formData) # {}
    THEN [f EXCEPT !.validationErrors = validate(f.formData), !.calls = 0]
    ELSE [f EXCEPT !.validationErrors = {}, !.saving = TRUE, !.error = FALSE,
                   !.success = FALSE, !.calls = 1]

\* The browser's check of the inputs' min and max before it fires submit:
\* of the validated fields only engine_load has them.
ConstraintsValid(fd) ==
    fd.engine_load = <<>> \/ (fd.engine_load[1] >= 0 /\ fd.engine_load[1] <= 100)

FormStep(f, op) ==
    /\ form' = f
    /\ lastOp' = op
    /\ UNCHANGED <<mapView, pureVars, route, detail, server>>

\* The Save button, disabled while saving: the browser fires submit only
\* if the inputs satisfy their constraints.
ClickSave ==
    /\ ~form.saving
    /\ IF ConstraintsValid(form.formData)
       THEN FormStep(handleSubmit(form), "submit")
       ELSE FormStep(form, "blocked")

\* A submit event dispatched on the form itself, as the component's tests do.
SubmitEvent ==
    /\ ~form.saving
    /\ FormStep(handleSubmit(form), "submit")

\* updateSession resolves.
SaveResolve ==
    /\ form.saving
    /\ FormStep([form EXCEPT !.success = TRUE, !.saving = FALSE], "saved")

\* updateSession rejects.
SaveReject ==
    /\ form.saving
    /\ FormStep([form EXCEPT !.error = TRUE, !.saving = FALSE], "saveFailed")

\* The form once fetchSession has filled formData with fd.
FormLoaded(fd) ==
    [formData |-> fd, validationErrors |-> {}, saving |-> FALSE,
     error |-> FALSE, success |-> FALSE, calls |-> 0]

\* --------------------------------------------- the telemetry table view

\* Pages of the table, and getTractorData requests in flight at once.
MaxPages == 2
MaxInFlight == 2

\* Keys of the columns whose headers are clicked.
columns == {"date_time", "engine_speed", "engine_load"}

\* A query of the URL: an absent key is <<>>.  pageSize is left out: no
\* operation studied here changes it.
Query(by, order, p) == [sortBy |-> by, sortOrder |-> order, page |-> p]

\* The URLs the view is opened with: a bare one and a bookmarked one.
StartQueries == {Query(<<>>, <<>>, <<>>), Query(<<"engine_speed">>, <<"desc">>, <<2>>)}

\* The getters of the computed refs.
page(q) == IF q.page = <<>> \/ q.page[1] = 0 THEN 1 ELSE q.page[1]

sortBy(q) == IF q.sortBy = <<>> THEN "date_time" ELSE q.sortBy[1]

sortOrder(q) == IF q.sortOrder = <<>> THEN "asc" ELSE q.sortOrder[1]

\* router.push(target): the target becomes the pending location in place
\* of any earlier one; route.query stays as it is until the navigation is
\* confirmed.  A push to the current location starts no navigation.
push(r, target) ==
    [r EXCEPT !.pending = IF target = r.query THEN <<>> ELSE <<target>>]

\* updateQuery: { ...route.query, ...newParams }, given as the merged query.
updateQuery(r, merged) == push(r, merged)

\* The setters of the computed refs.
pageSet(r, val) == updateQuery(r, [r.query EXCEPT !.page = <<val>>])

sortBySet(r, val) ==
    updateQuery(r, [r.query EXCEPT !.sortBy = <<val>>, !.page = <<1>>])

sortOrderSet(r, val) ==
    updateQuery(r, [r.query EXCEPT !.sortOrder = <<val>>, !.page = <<1>>])

\* toggleSort(column)
toggleSort(r, column) ==
    IF sortBy(r.query) = column
    THEN sortOrderSet(r, IF sortOrder(r.query) = "asc" THEN "desc" ELSE "asc")
    ELSE sortOrderSet(sortBySet(r, column), "asc")

\* The pending navigation is confirmed, which happens before any later
\* event: the query is replaced and the one before it goes to the history.
confirm(r) ==
    IF r.pending = <<>> THEN r
    ELSE [query |-> r.pending[1], pending |-> <<>>, previous |-> <<r.query>>]

\* fetchData() up to its await: a request for the query of the moment.
fetchData(d, q) ==
    [d EXCEPT !.loading = TRUE, !.error = FALSE, !.requests = Append(@, q)]

\* watch(route.query): fetchData runs when the query object was replaced.
watchQuery(d, old, new) == IF old.query = new.query THEN d ELSE fetchData(d, new.query)

\* s without its i-th element.
Without(seq, i) == SubSeq(seq, 1, i - 1) \o SubSeq(seq, i + 1, Len(seq))

\* The table is in the v-else-if="data" branch of the template.
TableRendered == ~detail.loading /\ ~detail.error /\ detail.data # <<>>

\* Room for the request a navigation starts.
RequestLeft == Len(detail.requests) < MaxInFlight

\* A handler of the table has pushed; the navigation and the watcher follow.
Navigate(r, op, col) ==
    /\ route' = confirm(r)
    /\ detail' = [watchQuery(detail, route, confirm(r)) EXCEPT !.clicked = col]
    /\ lastOp' = op
    /\ UNCHANGED <<mapView, pureVars, form, server>>

ClickHeader(col) ==
    /\ TableRendered /\ RequestLeft
    /\ Navigate(toggleSort(route, col), "toggleSort", col)

ClickPage(p) ==
    /\ TableRendered /\ RequestLeft
    /\ Navigate(pageSet(route, p), "page", "")

\* The browser's Back button: the query before the current one returns.
Back ==
    /\ route.previous # <<>> /\ RequestLeft
    /\ route' = [query |-> route.previous[1], pending |-> <<>>, previous |-> <<>>]
    /\ detail' = [watchQuery(detail, route, route') EXCEPT !.clicked = ""]
    /\ lastOp' = "back"
    /\ UNCHANGED <<mapView, pureVars, form, server>>

\* The i-th request in flight resolves: the rest of fetchData.  A response
\* is the page of rows its query asked for.
Resolve(i) ==
    /\ detail' = [detail EXCEPT !.data = <<detail.requests[i]>>,
                                !.loading = FALSE,
                                !.requests = Without(@, i)]
    /\ lastOp' = "resolved"
    /\ UNCHANGED <<route, mapView, pureVars, form, server>>

\* The i-th request in flight rejects.
Reject(i) ==
    /\ detail' = [detail EXCEPT !.error = TRUE,
                                !.loading = FALSE,
                                !.requests = Without(@, i)]
    /\ lastOp' = "rejected"
    /\ UNCHANGED <<route, mapView, pureVars, form, server>>

\* The table view mounted on query q: onMounted(fetchData).
DetailMounted(q) ==
    fetchData([data |-> <<>>, loading |-> TRUE, error |-> FALSE,
               requests |-> <<>>, clicked |-> ""], q)

\* ------------------------------------------------------------ the server

\* Columns a request may sort by.
VALID_COLUMNS ==
    <<"id", "date_time", "serial_number", "gps_longitude", "gps_latitude",
      "total_working_hours_counter", "engine_speed", "engine_load",
      "fuel_consumption", "ground_speed_gearbox", "ground_speed_radar",
      "coolant_temperature", "speed_front_pto", "speed_rear_pto",
      "current_gear_shift", "ambient_temperature", "parking_brake_status",
      "transverse_differential_lock_status", "all_wheel_drive_status",
      "actual_status_of_creeper">>

\* Page size when the request names none, and the largest one served.
DefaultPageSize == 25
MaxPageSize == 100

\* The value of the decimal digits.
Digits ==
    [ch \in {"0", "1", "2", "3", "4", "5", "6", "7", "8", "9"} |->
        CASE ch = "0" -> 0 [] ch = "1" -> 1 [] ch = "2" -> 2 [] ch = "3" -> 3
          [] ch = "4" -> 4 [] ch = "5" -> 5 [] ch = "6" -> 6 [] ch = "7" -> 7
          [] ch = "8" -> 8 [] ch = "9" -> 9]

\* Texts a client may send as page or pageSize, character by character.
\* An array value reaches parseInt joined by commas.
NumberTexts ==
    {<<>>, <<"0">>, <<"1">>, <<"3">>, <<"-", "5">>, <<"-", "0">>, <<"+", "2">>,
     <<"2", "5">>, <<"1", "0", "0">>, <<"1", "0", "1">>, <<"9", "9", "9">>,
     <<"a", "b", "c">>, <<"7", "a", "b">>, <<" ", "1", "2">>, <<"1", "e", "3">>,
     <<"3", ".", "9">>, <<"-">>, <<"4", ",", "8">>}

\* Values a client may send as sortBy or sortOrder: one text, or the array
\* that a repeated parameter becomes.
WordValues ==
    {[type |-> "string", text |-> w] :
         w \in {"", "asc", "desc", "DESC", "id", "engine_speed", "date_time",
                "id; DROP TABLE vehicle_sessions", "ID"}}
    \cup {[type |-> "array", text |-> w] : w \in {"desc", "id"}}

\* req.query of a request: each parameter absent or sent.
Requests ==
    [page : {<<>>} \cup {<<t>> : t \in NumberTexts},
     pageSize : {<<>>} \cup {<<t>> : t \in NumberTexts},
     sortBy : {<<>>} \cup {<<w>> : w \in WordValues},
     sortOrder : {<<>>} \cup {<<w>> : w \in WordValues}]

\* The text without its leading white space.
RECURSIVE TrimStart(_)
TrimStart(text) ==
    IF text # <<>> /\ text[1] = " " THEN TrimStart(Tail(text)) ELSE text

\* The number written by the leading digits of text, after the digits
\* already read as acc.
RECURSIVE LeadingDigits(_, _)
LeadingDigits(text, acc) ==
    IF text # <<>> /\ text[1] \in DOMAIN Digits
    THEN LeadingDigits(Tail(text), 10 * acc + Digits[text[1]])
    ELSE acc

\* parseInt(value): NaN (<<>>) for undefined and for a text that, after
\* white space and a sign, does not start with a digit; else the leading
\* digits with the sign.
parseInt(value) ==
    IF value = <<>> THEN <<>>
    ELSE LET text == TrimStart(value[1])
             signed == text # <<>> /\ text[1] \in {"-", "+"}
             digits == IF signed THEN Tail(text) ELSE text
         IN  IF digits = <<>> \/ digits[1] \notin DOMAIN Digits THEN <<>>
             ELSE IF signed /\ text[1] = "-"
                  THEN <<0 - LeadingDigits(digits, 0)>>
                  ELSE <<LeadingDigits(digits, 0)>>

\* number || fallback: NaN and 0 are falsy.
OrElse(number, fallback) ==
    IF number = <<>> THEN fallback
    ELSE IF number[1] = 0 THEN fallback ELSE number[1]

\* VALID_COLUMNS.includes(value): a string equal to one of the columns.
includes(list, value) ==
    /\ value # <<>>
    /\ value[1].type = "string"
    /\ \E i \in 1 .. Len(list) : list[i] = value[1].text

\* const page = Math.max(1, parseInt(req.query.page) || 1)
serverPage(query) == Max(1, OrElse(parseInt(query.page), 1))

\* Faulty variant of serverPageSize: no Math.min against the largest size.
serverPageSizeUncapped(query) ==
    Max(1, OrElse(parseInt(query.pageSize), DefaultPageSize))

\* const pageSize = Math.min(100, Math.max(1, parseInt(...) || 25))
serverPageSize(query) ==
    Min(MaxPageSize, Max(1, OrElse(parseInt(query.pageSize), DefaultPageSize)))

\* const sortBy = VALID_COLUMNS.includes(...) ? req.query.sortBy : 'date_time'
serverSortBy(query) ==
    IF includes(VALID_COLUMNS, query.sortBy) THEN query.sortBy[1].text
    ELSE "date_time"

\* const sortOrder = req.query.sortOrder === 'desc' ? 'DESC' : 'ASC'
serverSortOrder(query) ==
    IF query.sortOrder = <<[type |-> "string", text |-> "desc"]>>
    THEN "DESC" ELSE "ASC"

\* The handler of GET /tractors/:serialNumber up to its second query: the
\* values placed in ORDER BY, LIMIT and OFFSET.
GetTractorData ==
    /\ server.sql = <<>>
    /\ server' = [server EXCEPT !.sql =
           <<[page |-> serverPage(server.query),
              pageSize |-> serverPageSize(server.query),
              sortBy |-> serverSortBy(server.query),
              sortOrder |-> serverSortOrder(server.query),
              offset |-> (serverPage(server.query) - 1)
                             * serverPageSize(server.query)]>>]
    /\ lastOp' = "getTractorData"
    /\ UNCHANGED <<mapView, pureVars, route, detail, form>>

\* The other views as they are while the map view is studied.
ElsewhereInit ==
    /\ route = [query |-> Query(<<>>, <<>>, <<>>), pending |-> <<>>, previous |-> <<>>]
    /\ detail = DetailMounted(route.query)
    /\ form = FormLoaded(EmptyFormData)
    /\ server = <<>>

\* The view once mounted: onMounted has called fetchData.
ViewInit ==
    /\ fetchedBy = "mount"
    /\ map = "none"
    /\ tractorMarker = <<>>
    /\ mounted = TRUE
    /\ filtered = <<>>
    /\ color = ""
    /\ gpsData = <<>>
    /\ loading = TRUE
    /\ error = FALSE
    /\ currentIndex = 0
    /\ isPlaying = FALSE
    /\ playbackSpeed = 2
    /\ playInterval = 0
    /\ timers = {}
    /\ nextTimerId = 1
    /\ lastOp = "mounted"
    /\ runClean = FALSE
    /\ runNotified = 0

Init ==
    /\ ViewInit
    /\ ElsewhereInit
    /\ data = <<>>
    /\ avgSpeed = <<>>

Next ==
    \/ FetchResolve
    \/ FetchReject
    \/ Retry
    \/ ClickTogglePlay
    \/ ClickReset
    \/ ClickSkipBack
    \/ ClickSkipForward
    \/ InputTimeline
    \/ ClickSpeed
    \/ Tick
    \/ InitMap

\* The view as its template drives it.
Spec == Init /\ [][Next]_vars

\* The view from its mount to after it is left.
NextLife ==
    \/ Next
    \/ Unmount

LifeSpec == Init /\ [][NextLife]_vars

\* A control used while playback is stopped.
WhileStopped(A) == ~isPlaying /\ A

StoppedTogglePlay == WhileStopped(ClickTogglePlay)

StoppedReset == WhileStopped(ClickReset)

StoppedSkipBack == WhileStopped(ClickSkipBack)

StoppedSkipForward == WhileStopped(ClickSkipForward)

StoppedInputTimeline == WhileStopped(InputTimeline)

StoppedSpeed == WhileStopped(ClickSpeed)

NextUndisturbed ==
    \/ FetchResolve
    \/ FetchReject
    \/ Retry
    \/ StoppedTogglePlay
    \/ StoppedReset
    \/ StoppedSkipBack
    \/ StoppedSkipForward
    \/ StoppedInputTimeline
    \/ StoppedSpeed
    \/ Tick
    \/ InitMap

\* One run left alone: nobody touches the controls while playback is
\* running, and an active interval timer keeps firing.
RunSpec == Init /\ [][NextUndisturbed]_vars /\ WF_vars(Tick)

CallSeek == \E v \in SeekInputs : Seek(v)

CallSetSpeed == \E speed \in AnySpeeds : SetSpeed(speed)

NextApi ==
    \/ FetchResolve
    \/ FetchReject
    \/ Retry
    \/ TogglePlay
    \/ Reset
    \/ SkipBack
    \/ SkipForward
    \/ CallSeek
    \/ CallSetSpeed
    \/ Tick
    \/ InitMap

\* The same handlers called directly, as a unit test or another caller of
\* the script's functions would: no template deciding whether the control
\* exists, and any number as the speed.
ApiSpec == Init /\ [][NextApi]_vars

\* The sanitizer on its own: every response of up to MaxSamples samples.
SanitizeInit ==
    /\ ViewInit
    /\ ElsewhereInit
    /\ data \in Responses
    /\ avgSpeed = <<>>

NextSanitize ==
    \/ FetchSanitize
    \/ Resanitize

SanitizeSpec == SanitizeInit /\ [][NextSanitize]_vars

\* The classifier on its own: every speed of Speeds.
ClassifyInit ==
    /\ ViewInit
    /\ ElsewhereInit
    /\ data = <<>>
    /\ avgSpeed \in Speeds

NextClassify == Classify

ClassifySpec == ClassifyInit /\ [][NextClassify]_vars

\* The segment colouring on its own: every pair of end speeds.
SegmentInit ==
    /\ gpsData \in {<<[ground_speed_gearbox |-> a], [ground_speed_gearbox |-> b]>> :
                        a \in EndSpeeds, b \in EndSpeeds}
    /\ loading = FALSE
    /\ map = "scheduled"
    /\ tractorMarker = <<>>
    /\ mounted = TRUE
    /\ fetchedBy = "mount"
    /\ filtered = <<>>
    /\ color = ""
    /\ error = FALSE
    /\ currentIndex = 0
    /\ isPlaying = FALSE
    /\ playbackSpeed = 2
    /\ playInterval = 0
    /\ timers = {}
    /\ nextTimerId = 1
    /\ lastOp = "fetch"
    /\ runClean = FALSE
    /\ runNotified = 0
    /\ ElsewhereInit
    /\ data = <<>>
    /\ avgSpeed = <<>>

NextSegment == ColorSegment

SegmentSpec == SegmentInit /\ [][NextSegment]_vars

\* The telemetry table on its own.
TableInit ==
    /\ ViewInit
    /\ data = <<>>
    /\ avgSpeed = <<>>
    /\ route \in {[query |-> q, pending |-> <<>>, previous |-> <<>>] : q \in StartQueries}
    /\ detail = DetailMounted(route.query)
    /\ form = FormLoaded(EmptyFormData)
    /\ server = <<>>

NextTable ==
    \/ \E col \in columns : ClickHeader(col)
    \/ \E p \in 1 .. MaxPages : ClickPage(p)
    \/ Back
    \/ \E i \in 1 .. Len(detail.requests) : Resolve(i)
    \/ \E i \in 1 .. Len(detail.requests) : Reject(i)

TableSpec == TableInit /\ [][NextTable]_vars

\* The server's handler on its own, for every request of Requests.
ServerInit ==
    /\ ViewInit
    /\ data = <<>>
    /\ avgSpeed = <<>>
    /\ route = [query |-> Query(<<>>, <<>>, <<>>), pending |-> <<>>, previous |-> <<>>]
    /\ detail = DetailMounted(route.query)
    /\ form = FormLoaded(EmptyFormData)
    /\ server \in {[query |-> q, sql |-> <<>>] : q \in Requests}

NextServer == GetTractorData

ServerSpec == ServerInit /\ [][NextServer]_vars

\* The edit form on its own, for every formData of FormInputs.
EditInit ==
    /\ ViewInit
    /\ data = <<>>
    /\ avgSpeed = <<>>
    /\ route = [query |-> Query(<<>>, <<>>, <<>>), pending |-> <<>>, previous |-> <<>>]
    /\ detail = DetailMounted(route.query)
    /\ form \in {FormLoaded(fd) : fd \in FormInputs}
    /\ server = <<>>

NextEdit ==
    \/ ClickSave
    \/ SubmitEvent
    \/ SaveResolve
    \/ SaveReject

EditSpec == EditInit /\ [][NextEdit]_vars

\* ================================================================== claims

PlaybackOps == {"play", "pause", "reset", "seek", "skipBack", "skipForward"}

\* C1: after any sequence of seek, play, tick, pause, reset, skipBack,
\* skipForward and setSpeed, currentIndex is in [0, N-1] when the trajectory
\* is non-empty and is 0 when it is empty.
C1_IndexInRange ==
    IF N > 0 THEN currentIndex \in 0 .. (N - 1) ELSE currentIndex = 0

C1_Witness ==
    /\ N >= 10
    /\ lastOp = "skipForward"
    /\ currentIndex = N - 1
    /\ isPlaying

\* C2: at most one interval timer is active at any time, also across the
\* pause-then-play of setSpeed and the self-pause of the final tick.
C2_AtMostOneTimer ==
    /\ Cardinality(timers) <= 1
    /\ \A t \in timers : t.id = playInterval

C2_Witness ==
    /\ lastOp = "setSpeed"
    /\ isPlaying
    /\ nextTimerId = 3
    /\ Cardinality(timers) = 1

\* C3: once pause() or reset() has returned no timer is left active, and
\* while playback is stopped no tick runs until the next play().
C3_NoTickAfterPause ==
    [][ /\ (lastOp' \in {"pause", "reset"}) => (timers' = {} /\ ~isPlaying')
        /\ (~isPlaying) => (lastOp' # "tick") ]_vars

C3_Witness ==
    /\ lastOp = "pause"
    /\ ~isPlaying
    /\ currentIndex > 0
    /\ currentIndex < N - 1
    /\ nextTimerId > 1

\* C4: with ticks firing and no intervening call, playback ends stopped at
\* index 0 with no timer, and only a new play() starts it again.
C4_PlaybackTerminates ==
    /\ isPlaying ~> (~isPlaying /\ currentIndex = 0 /\ timers = {} /\ playInterval = 0)
    /\ [][(~isPlaying /\ isPlaying') => lastOp' = "play"]_vars

C4_Witness ==
    /\ runClean
    /\ lastOp = "tick"
    /\ ~isPlaying
    /\ currentIndex = 0
    /\ timers = {}
    /\ N >= 2

\* A run that play() started at index 0 and that ran to its end untouched.
RunCompleted == runClean /\ lastOp = "tick" /\ ~isPlaying

\* C5 (as stated): a complete untouched run from index 0 delivers exactly
\* N-1 position-change notifications.
C5_NotificationsNMinusOne == RunCompleted => runNotified = N - 1

\* C5 (amended): a complete untouched run from index 0 delivers N
\* notifications when N >= 2 (N-1 increments and the final reset to 0) and
\* none when N = 1.
C5_NotificationsPerRun ==
    RunCompleted => runNotified = (IF N = 1 THEN 0 ELSE N)

C5_Witness == RunCompleted /\ N = 3 /\ runNotified = 3

C7_EmptyNoOp ==
    [][(N = 0 /\ lastOp' \in PlaybackOps) =>
          (currentIndex' = 0 /\ ~isPlaying' /\ timers' = {} /\ playInterval' = 0)]_vars

\* C8 (as stated): setSpeed with a value outside the four options is
\* rejected and changes nothing.
C8_InvalidSpeedRejected ==
    [][\A speed \in AnySpeeds \ speedOptions :
          SetSpeed(speed) =>
              UNCHANGED <<playbackSpeed, isPlaying, currentIndex, timers, playInterval>>]_vars

\* round(150 / r) for the four options, written out.
ExpectedPeriod(s2) ==
    CASE s2 = 1 -> 300
      [] s2 = 2 -> 150
      [] s2 = 4 -> 75
      [] s2 = 8 -> 38

\* C9: setSpeed while running replaces the timer by a new one of period
\* round(150/r) in the same step, keeping isPlaying and currentIndex; while
\* stopped it changes only the speed and starts no timer.
C9_SetSpeedRestarts ==
    [][lastOp' = "setSpeed" =>
          IF isPlaying
          THEN /\ isPlaying'
               /\ currentIndex' = currentIndex
               /\ timers' \cap timers = {}
               /\ timers' = {[id |-> playInterval',
                              period |-> ExpectedPeriod(playbackSpeed')]}
               /\ playInterval' # playInterval
          ELSE /\ UNCHANGED <<currentIndex, isPlaying, timers, playInterval>>
               /\ timers' = {}]_vars

C9_Witness ==
    /\ lastOp = "setSpeed"
    /\ isPlaying
    /\ playbackSpeed = 8
    /\ timers = {[id |-> 2, period |-> 38]}

\* floor(0.1 * n), from its defining inequalities.
TenthFloor(n) == CHOOSE k \in 0 .. n : 10 * k <= n /\ n < 10 * (k + 1)

\* C10: skipBack sets currentIndex to max(0, currentIndex - floor(0.1 N)),
\* skipForward to min(N-1, currentIndex + floor(0.1 N)); neither changes
\* isPlaying or the timer, and for N < 10 the index does not move.
C10_SkipByTenth ==
    [][ /\ lastOp' = "skipBack" =>
              /\ currentIndex' = (IF currentIndex - TenthFloor(N) < 0
                                  THEN 0 ELSE currentIndex - TenthFloor(N))
              /\ UNCHANGED <<isPlaying, timers, playInterval>>
        /\ lastOp' = "skipForward" =>
              /\ currentIndex' = (IF currentIndex + TenthFloor(N) > N - 1
                                  THEN N - 1 ELSE currentIndex + TenthFloor(N))
              /\ UNCHANGED <<isPlaying, timers, playInterval>>
        /\ (lastOp' \in {"skipBack", "skipForward"} /\ N < 10) =>
              currentIndex' = currentIndex ]_vars

C10_Witness ==
    /\ lastOp = "skipBack"
    /\ N >= 10
    /\ currentIndex > 0
    /\ currentIndex < N - 2
    /\ isPlaying

\* ------------------------------------------------------ sanitizer claims

\* fetchData has sanitized the response under study.
Sanitized == lastOp = "fetch" /\ data # <<>>

\* C11: the output of sanitize is in non-decreasing time order.
C11_OutputTimeOrdered ==
    Sanitized =>
        \A i, j \in 1 .. N : i < j => gpsData[i].date_time <= gpsData[j].date_time

\* A response that arrived out of time order, two of whose samples are kept.
C11_Witness ==
    /\ Sanitized
    /\ N >= 2
    /\ \E i, j \in 1 .. N : i < j /\ gpsData[i].id > gpsData[j].id

\* Metres between two valid samples.
Apart(a, b) ==
    getDistance(a.gps_latitude[1], a.gps_longitude[1],
                b.gps_latitude[1], b.gps_longitude[1])

\* C12: any two consecutive samples of the output are strictly less than
\* 500 m apart.
C12_ConsecutiveUnderJump ==
    Sanitized => \A i \in 1 .. N - 1 : Apart(gpsData[i], gpsData[i + 1]) < 500

\* A sample exactly 500 m from the kept one before it was dropped, and the
\* next one, 1 m from the kept one, was kept.
C12_Witness ==
    /\ Sanitized
    /\ Len(filtered) = 3 /\ N = 2
    /\ Apart(filtered[1], filtered[2]) = 500
    /\ gpsData = <<filtered[1], filtered[3]>>
    /\ Apart(filtered[1], filtered[3]) = 1

\* Three samples A, B, C of points on the globe in time order, all on one
\* meridian or all on the equator, with B at least 500 m from A and C less
\* than 500 m from A.
AnchorCase(d) ==
    /\ Len(d) = 3
    /\ \A i \in 1 .. 3 :
          /\ d[i].gps_latitude # <<>> /\ d[i].gps_longitude # <<>>
          /\ Abs(d[i].gps_latitude[1]) <= LatLimit
          /\ Abs(d[i].gps_longitude[1]) <= LonLimit
    /\ d[1].date_time <= d[2].date_time /\ d[2].date_time <= d[3].date_time
    /\ \/ \A i \in 2 .. 3 : d[i].gps_longitude = d[1].gps_longitude
       \/ \A i \in 1 .. 3 : d[i].gps_latitude = <<0>>
    /\ Apart(d[1], d[2]) >= 500
    /\ Apart(d[1], d[3]) < 500

\* The instance A(0, 0), B(0, 0.01 deg), C(0, 0.0001 deg).
EquatorCase == data = Numbered(<<EquatorA, EquatorB, EquatorC>>)

\* C13 (as stated): sanitize([A, B, C]) = [A, C] for every such A, B, C,
\* the equator instance among them.
C13_AnchorAsStated ==
    Sanitized => (AnchorCase(data) => gpsData = <<data[1], data[3]>>)

\* C13 (amended): sanitize([A, B, C]) = [A, C] for every such A, B, C that
\* pass the validity filter, whatever the distance from B to C; the samples
\* of the equator instance each have a zero coordinate and are all dropped.
C13_AnchorOnValid ==
    Sanitized =>
        /\ (AnchorCase(data) /\ \A i \in 1 .. 3 : validFix(data[i]))
               => gpsData = <<data[1], data[3]>>
        /\ EquatorCase => (AnchorCase(data) /\ gpsData = <<>>)

\* B is 800 m from A, and C, 1 m from A, is 799 m from the dropped B.
C13_Witness ==
    /\ Sanitized
    /\ AnchorCase(data)
    /\ \A i \in 1 .. 3 : validFix(data[i])
    /\ Apart(data[1], data[2]) = 800
    /\ Apart(data[2], data[3]) = 799
    /\ gpsData = <<data[1], data[3]>>

\* A sample with a coordinate that is null, zero or out of range.
Rejected(d) ==
    \/ d.gps_latitude = <<>> \/ d.gps_longitude = <<>>
    \/ d.gps_latitude = <<0>> \/ d.gps_longitude = <<0>>
    \/ d.gps_latitude[1] > LatLimit \/ d.gps_latitude[1] < -LatLimit
    \/ d.gps_longitude[1] > LonLimit \/ d.gps_longitude[1] < -LonLimit

\* C14: the validity filter drops exactly the samples with a null, zero or
\* out-of-range coordinate; every other sample reaches the sort step, and
\* no response puts the view into its error state.
C14_FilterDropsExactly ==
    Sanitized =>
        /\ {filtered[i] : i \in 1 .. Len(filtered)}
               = {data[i] : i \in {k \in 1 .. Len(data) : ~Rejected(data[k])}}
        /\ Len(filtered) = Cardinality({k \in 1 .. Len(data) : ~Rejected(data[k])})
        /\ ~error

\* A null latitude, a zero longitude and a latitude at the edge of the
\* range in one response: only the last is kept.
C14_Witness ==
    /\ Sanitized
    /\ \E i \in 1 .. Len(data) : data[i].gps_latitude = <<>>
    /\ \E i \in 1 .. Len(data) : data[i].gps_longitude = <<0>> /\ data[i].gps_latitude # <<0>>
    /\ Len(filtered) = 1
    /\ filtered[1].gps_latitude = <<LatLimit>>

\* C15: sanitize is idempotent: sanitizing the trajectory it produced
\* gives that trajectory again.
C15_Idempotent ==
    lastOp = "resanitize" => gpsData = sanitize(data)

\* A response that lost an outlier the first time, and whose output holds
\* two samples of equal time.
C15_Witness ==
    /\ lastOp = "resanitize"
    /\ Len(data) = 3 /\ N = 2
    /\ \A i \in 1 .. 3 : ~Rejected(data[i])
    /\ gpsData[1].date_time = gpsData[2].date_time

\* ---------------------------------------------------------- fetch claims

\* C16: a failing fetch sets error and clears loading, leaves the
\* trajectory and the playback state as they were, and no fetch is started
\* and the error is not cleared until the user retries.
C16_FailureReported ==
    [][ /\ (loading /\ lastOp' = "fetchFailed") =>
              /\ error' /\ ~loading'
              /\ UNCHANGED <<gpsData, currentIndex, isPlaying, playbackSpeed,
                             playInterval, timers>>
        /\ (~loading /\ loading') => (error /\ lastOp' = "retry")
        /\ (error /\ ~error') => lastOp' = "retry" ]_vars

\* The fetch started by a retry has failed in its turn.
C16_Witness ==
    /\ lastOp = "fetchFailed"
    /\ fetchedBy = "retry"
    /\ error /\ ~loading
    /\ N = 0

C18_RendererInitialised ==
    (~loading /\ ~error /\ N > 0) => map \in {"scheduled", "ready"}

\* ------------------------------------------------------- ordering claims

\* C19: during automatic playback every tick that leaves the run going
\* notifies the index one greater than the index before it; the only other
\* tick is the one that ends the run, at index 0.
C19_StrictIndexOrder ==
    [][ lastOp' = "tick" =>
          /\ isPlaying' => /\ WatchFires(currentIndex, currentIndex')
                           /\ currentIndex' = currentIndex + 1
          /\ ~isPlaying' => currentIndex' = 0 ]_vars

\* An untouched run from index 0 has notified 1, 2, 3 and is still going.
C19_Witness ==
    /\ lastOp = "tick"
    /\ isPlaying
    /\ runClean
    /\ runNotified = 3
    /\ currentIndex = 3

\* ------------------------------------------------------ classifier claims

\* The legend's entry of a colour.
LegendOf(c) == CHOOSE e \in {speedLegend[i] : i \in 1 .. Len(speedLegend)} : e.color = c

\* The class a classified speed was given.
ClassGiven == LegendOf(color).description

C21_HeaderClickSorts ==
    [][ lastOp' = "toggleSort" =>
          IF detail'.clicked # sortBy(route.query)
          THEN /\ sortBy(route'.query) = detail'.clicked
               /\ sortOrder(route'.query) = "asc"
               /\ page(route'.query) = 1
          ELSE /\ sortBy(route'.query) = sortBy(route.query)
               /\ sortOrder(route'.query) # sortOrder(route.query)
               /\ sortOrder(route'.query) \in {"asc", "desc"} ]_vars

\* ------------------------------------------------------- edit form claims

\* The fields of fd whose value is outside what the form allows.
Violations(fd) ==
    (IF fd.engine_load \in {<<>>, <<0>>, <<100>>} THEN {} ELSE {"engine_load"})
    \cup (IF fd.gps_longitude \in {<<>>, <<-180>>, <<180>>} THEN {} ELSE {"gps_longitude"})
    \cup (IF fd.gps_latitude \in {<<>>, <<-90>>, <<90>>} THEN {} ELSE {"gps_latitude"})
    \cup (IF fd.total_working_hours_counter \in {<<>>, <<0>>, <<5>>}
          THEN {} ELSE {"total_working_hours_counter"})
    \cup (IF fd.engine_speed \in {<<>>, <<0>>, <<1600>>} THEN {} ELSE {"engine_speed"})
    \cup (IF fd.fuel_consumption \in {<<>>, <<0>>, <<12>>} THEN {} ELSE {"fuel_consumption"})

\* C22: a submit with a field out of its range records a validation error
\* for each such field and calls updateSession not at all; a submit with
\* no such field calls it exactly once.
C22_SubmitValidates ==
    lastOp = "submit" =>
        /\ form.validationErrors = Violations(form.formData)
        /\ form.calls = (IF Violations(form.formData) = {} THEN 1 ELSE 0)
        /\ form.saving <=> (Violations(form.formData) = {})

\* Engine load 101 and latitude -91 were submitted with the rest in range.
C22_Witness ==
    /\ lastOp = "submit"
    /\ form.formData.engine_load = <<101>>
    /\ form.formData.gps_latitude = <<-91>>
    /\ form.formData.gps_longitude = <<180>>
    /\ form.validationErrors = {"engine_load", "gps_latitude"}
    /\ form.calls = 0

\* ------------------------------------------------ sanitizer claims, again

\* The samples of the response that pass the validity filter.
ValidOf(d) == {d[i] : i \in {k \in 1 .. Len(d) : ~Rejected(d[k])}}

\* The first of them in time order, the earlier arrival among equal times.
IsFirstValid(x, d) ==
    /\ x \in ValidOf(d)
    /\ \A y \in ValidOf(d) :
          \/ x.date_time < y.date_time
          \/ x.date_time = y.date_time /\ x.id <= y.id

\* C23: the first valid sample in time order is always kept, and when every
\* other valid sample is 500 m or more from it the output is that sample
\* alone; of the response t=2 (10, 10), t=1 (10.5, 10), t=3 (10.0001,
\* 10.0001) only the t=1 sample is left.
C23_FirstAlwaysKept ==
    Sanitized =>
        /\ \A x \in ValidOf(data) :
              IsFirstValid(x, data) =>
                  /\ N >= 1 /\ gpsData[1] = x
                  /\ (\A y \in ValidOf(data) \ {x} : Apart(x, y) >= 500)
                         => gpsData = <<x>>
        /\ data = Numbered(EarlyBadFix) => gpsData = <<data[2]>>

\* The response of the scenario has been sanitized.
C23_Witness ==
    /\ Sanitized
    /\ data = Numbered(EarlyBadFix)
    /\ N = 1
    /\ gpsData[1].date_time = 1

\* --------------------------------------------------------- segment claims

\* C24: a segment is coloured by the class of the average of its two end
\* speeds with a null end counted as 0; so no segment is Unknown, and a
\* segment with both ends null is Slow.
C24_SegmentByAverage ==
    lastOp = "segment" =>
        LET a == gpsData[1].ground_speed_gearbox
            b == gpsData[2].ground_speed_gearbox
            twice == (IF a = <<>> THEN 0 ELSE a[1]) + (IF b = <<>> THEN 0 ELSE b[1])
        IN  /\ ClassGiven # "No speed data"
            /\ (ClassGiven = "Stationary/Slow") <=> (twice < 10000)
            /\ (ClassGiven = "Medium") <=> (twice >= 10000 /\ twice < 30000)
            /\ (ClassGiven = "Fast") <=> (twice >= 30000)
            /\ (a = <<>> /\ b = <<>>) => ClassGiven = "Stationary/Slow"

\* A segment from a point without a speed to one at 30 km/h is Fast.
C24_Witness ==
    /\ lastOp = "segment"
    /\ gpsData[1].ground_speed_gearbox = <<>>
    /\ gpsData[2].ground_speed_gearbox = <<30000>>
    /\ color = "#ef4444"

\* -------------------------------------------------------- timeline claims

\* C25: the progress percentage is 0 for a trajectory of at most one point
\* and currentIndex / (N - 1) * 100 otherwise; it is always within 0 .. 100,
\* and for N > 1 it is 0 exactly at index 0 and 100 exactly at index N - 1.
C25_ProgressWithinRange ==
    LET pct == progressPercent(currentIndex, N)
    IN  /\ pct.den > 0
        /\ 0 <= pct.num /\ pct.num <= 100 * pct.den
        /\ N <= 1 => pct.num = 0
        /\ N > 1 => /\ pct.num * (N - 1) = currentIndex * 100 * pct.den
                    /\ (pct.num = 0) <=> (currentIndex = 0)
                    /\ (pct.num = 100 * pct.den) <=> (currentIndex = N - 1)

\* A playback that reached the last of several points: the bar is full.
C25_Witness ==
    /\ N > 2
    /\ currentIndex = N - 1
    /\ lastOp = "tick"
    /\ progressPercent(currentIndex, N) = [num |-> (N - 1) * 100, den |-> N - 1]

\* C26: isPlaying is true exactly when a playback timer is active, that is
\* when the timer handle is non-null (and names a timer of the window).
C26_PlayingIffTimer ==
    /\ isPlaying <=> playInterval # 0
    /\ isPlaying <=> (\E t \in timers : t.id = playInterval)

\* A playback paused by its own last tick: not playing, no handle, no timer.
C26_Witness ==
    /\ lastOp = "tick"
    /\ N > 1
    /\ currentIndex = 0
    /\ ~isPlaying
    /\ playInterval = 0
    /\ timers = {}

\* ---------------------------------------------------------- marker claims

\* C27: whenever the marker exists and every notification of a playhead
\* change has been processed, the marker is at the coordinates of
\* gpsData[currentIndex], however initMap's delayed call falls among play,
\* ticks, seek and skip.
C27_MarkerAtPlayhead ==
    tractorMarker # <<>> =>
        /\ currentIndex \in 0 .. N - 1
        /\ tractorMarker = <<gpsData[currentIndex + 1]>>

\* C28: after the view is unmounted no playback timer remains active and no
\* tick changes currentIndex, whatever the playback state was at unmount and
\* whether or not the fetch had completed.
C28_QuietAfterUnmount ==
    /\ [](~mounted => (timers = {} /\ playInterval = 0 /\ ~isPlaying))
    /\ [][~mounted => currentIndex' = currentIndex]_vars

\* The view was left in the middle of a playback started at the first
\* point: the timer is gone.
C28_Witness ==
    /\ ~mounted
    /\ lastOp = "unmount"
    /\ runClean /\ runNotified > 0
    /\ currentIndex > 0
    /\ timers = {}

\* ------------------------------------------------- table fetching claims

\* What a request for query q asks the server for.
Asked(q) == <<page(q), sortBy(q), sortOrder(q)>>

\* The rows shown are the response to the current URL query.
ShowsCurrentQuery ==
    (detail.requests = <<>> /\ ~detail.error /\ detail.data # <<>>) =>
        Asked(detail.data[1]) = Asked(route.query)

\* loading is false only when no request is in flight.
LoadingWhileInFlight == ~detail.loading => detail.requests = <<>>

\* C29 (as stated): once every outstanding getTractorData request has
\* settled the table shows the response to the most recently issued request
\* (the current URL query), and loading is false only when no request is in
\* flight, in whatever order overlapping requests complete.
C29_LatestResponseShown == ShowsCurrentQuery /\ LoadingWhileInFlight

\* ----------------------------------------------------------- server claims

\* C30: for every request to GET /tractors/:serialNumber, whatever its
\* query, page >= 1, pageSize is within 1 .. 100, offset = (page - 1) *
\* pageSize >= 0, the column in ORDER BY is one of VALID_COLUMNS (date_time
\* unless the request names one), and the direction is DESC only for
\* sortOrder 'desc', else ASC.
C30_QueryWithinLimits ==
    lastOp = "getTractorData" =>
        LET q == server.query
            sql == server.sql[1]
            named == /\ q.sortBy # <<>>
                     /\ q.sortBy[1].type = "string"
                     /\ \E i \in 1 .. Len(VALID_COLUMNS) :
                            VALID_COLUMNS[i] = q.sortBy[1].text
        IN  /\ sql.page >= 1
            /\ sql.pageSize >= 1 /\ sql.pageSize <= 100
            /\ sql.offset = (sql.page - 1) * sql.pageSize
            /\ sql.offset >= 0
            /\ \E i \in 1 .. Len(VALID_COLUMNS) : VALID_COLUMNS[i] = sql.sortBy
            /\ IF named THEN sql.sortBy = q.sortBy[1].text
                        ELSE sql.sortBy = "date_time"
            /\ sql.sortOrder \in {"ASC", "DESC"}
            /\ (sql.sortOrder = "DESC") <=>
                   (q.sortOrder # <<>> /\ q.sortOrder[1].type = "string"
                                       /\ q.sortOrder[1].text = "desc")

\* A request for page -5 of 999 rows sorted by an injected text, upper-case
\* DESC: page 1 of 100 rows by date_time ascending.
C30_Witness ==
    /\ lastOp = "getTractorData"
    /\ server.query.page = << <<"-", "5">> >>
    /\ server.query.pageSize = << <<"9", "9", "9">> >>
    /\ server.query.sortBy = <<[type |-> "string", text |-> "id; DROP TABLE vehicle_sessions"]>>
    /\ server.query.sortOrder = <<[type |-> "string", text |-> "DESC"]>>
    /\ server.sql = <<[page |-> 1, pageSize |-> 100, sortBy |-> "date_time",
                       sortOrder |-> "ASC", offset |-> 0]>>

====
